---------------------------- MODULE Spec2Model ----------------------------
(***************************************************************************)
(* A model of python-template-server: the API-key Authentication Gate and  *)
(* the routes that use it (template_server.py), the certificate bootstrap  *)
(* performed by TemplateServer.run (template_server.py and                 *)
(* certificate_handler.py) and the token store kept in the environment     *)
(* file (authentication_handler.py).                                       *)
(*                                                                         *)
(* Strings that the code tests for emptiness (the token hash) are modelled *)
(* as sequences: <<>> is the empty string "".  A SHA-256 digest cannot be  *)
(* computed here; hash_token(t) is the tagged value <<"sha256", t>>, which *)
(* is deterministic, differs from every token and differs between tokens.  *)
(***************************************************************************)
EXTENDS Naturals, Sequences, FiniteSets, TLC

VARIABLES
    \* ---- the constructed server (TemplateServer.__init__) ----
    api_key_header_name,   \* self.api_key_header_name
    hashed_token,          \* self.hashed_token, <<>> when none is configured
    \* ---- one request on its way through the application ----
    rpc,                   \* "idle", "routed", "authorized", "responded"
    req,                   \* the request: [endpoint, headers]
    gate_api_key,          \* the api_key argument _verify_api_key was called with
    gate_outcome,          \* "none" until the gate is invoked, then its outcome
    static_dir,            \* the static directory, with or without 404.html
    gate_raised,           \* the HTTPException the gate raised, or NoRaise
    verified,              \* the call of verify_token made for the request
    resp_headers,          \* the security headers of the response
    request_log,           \* the entries logged for the request
    limiter,               \* self.limiter is not None
    hits,                  \* the client's requests counted in this window
    handler_ran,           \* the route handler that ran for the request, or "none"
    resp,                  \* the response of the request
    metrics,               \* the Prometheus counters, by name and label
    \* ---- the certificate files and one process executing run() ----
    auto_bootstrap,        \* the certificate policy the operator asks for;
    interrupted,           \* the start before this one was killed mid-bootstrap
                           \* run() has no setting for it and never reads it
    key_file,              \* content of certificate.ssl_key_file_path
    cert_file,             \* content of certificate.ssl_cert_file_path
    starts,                \* the number of processes started so far
    run_pc,                \* where run() is
    boot_key,              \* content of the key file when run() checked it
    boot_cert,             \* content of the certificate file at that check
    written,               \* the files this process has opened for writing
    raised,                \* the exception raised in this process, or "none"
    exit_status,           \* "none" while the process lives, then "0" or "1"
    listener,              \* TRUE while uvicorn serves
    \* ---- the environment file and one process using the token store ----
    env_exists,            \* ENV_FILE_PATH.exists()
    env_file,              \* the lines of the environment file
    env_initial,           \* the lines it held before the first save
    os_environ,            \* os.environ of the process
    last_saved,            \* the token of the latest save_hashed_token
    loaded,                \* what load_hashed_token returned since then
    \* --- TemplateServer.load_config ---
    config_file,           \* the configuration file on disk
    sys_argv,              \* the command line of the process
    argparser,             \* the options registered with the module's parser
    config_read,           \* the file as the latest load_config found it
    config_pc,             \* "idle", "returned" or "exited"
    config,                \* the configuration load_config returned
    config_raised,         \* the exception that ended load_config
    config_exit,           \* the exit status of the process
    \* --- the order of __init__ and run() ---
    startup_pc,            \* the next step of the constructor or of run()
    startup_done,          \* the steps completed so far, in order
    cors_enabled,          \* config.cors.enabled
    rate_limit_enabled,    \* config.rate_limit.enabled
    subclass_routes,       \* the routes the subclass adds in setup_routes
    cert_pair_exists,      \* both the certificate and the key file exist
    app_middleware,        \* the middleware added to the application
    app_routes,            \* the routes added to the application
    \* --- the running server and generate_new_token ---
    hash_at_start,         \* what load_hashed_token returned to __init__
    stdout,                \* the lines generate_new_token printed
    log_records,           \* the records it logged
    generated,             \* the tokens of the calls that returned
    \* --- the metric counters ---
    counter_value,         \* the value of each labelled counter child
    counter_lock,          \* the worker holding the lock of each child
    inc_pc,                \* each worker's position in increment_counter
    inc_child,             \* the child each worker increments
    inc_read               \* the value each worker read inside inc()

authVars == <<api_key_header_name, static_dir, hashed_token, rpc, req,
              gate_api_key, gate_outcome, gate_raised, verified, limiter,
              hits, handler_ran, resp, resp_headers, request_log, metrics>>

certVars == <<auto_bootstrap, interrupted, key_file, cert_file, starts,
              run_pc, boot_key, boot_cert, written, raised, exit_status,
              listener>>

tokenVars == <<env_exists, env_file, env_initial, os_environ, last_saved,
               loaded>>

configVars == <<config_file, sys_argv, argparser, config_read, config_pc,
                config, config_raised, config_exit>>

startupVars == <<startup_pc, startup_done, cors_enabled, rate_limit_enabled,
                 subclass_routes, cert_pair_exists, app_middleware,
                 app_routes>>

lifeVars == <<hash_at_start, stdout, log_records, generated>>

counterVars == <<counter_value, counter_lock, inc_pc, inc_child, inc_read>>

vars == <<authVars, certVars, tokenVars, configVars, startupVars, lifeVars,
          counterVars>>

notAuth == <<certVars, tokenVars, configVars, startupVars, lifeVars,
    counterVars>>
notCert == <<authVars, tokenVars, configVars, startupVars, lifeVars,
    counterVars>>
notToken == <<authVars, certVars, configVars, startupVars, lifeVars,
    counterVars>>
notConfig == <<authVars, certVars, tokenVars, startupVars, lifeVars,
    counterVars>>
notStartup == <<authVars, certVars, tokenVars, configVars, lifeVars,
    counterVars>>

-----------------------------------------------------------------------------
(* Bounds *)

NumTokens == 2

\* The number of times the server process is started.
MaxStarts == 3

\* The number of lines of the environment file before the first save.
MaxLines == 2

\* The number of calls of generate_new_token that return.
MaxGenerations == 2

\* The requests incrementing counters at the same time.
NumWorkers == 3

\* The count of config.rate_limit.rate_limit: the requests of a client a
\* limited route serves in one window.
RateLimitCount == 2

-----------------------------------------------------------------------------
(* Constants of the program *)

API_KEY_HEADER_NAME == "X-API-Key"

OK == 200
UNAUTHORIZED == 401
INTERNAL_SERVER_ERROR == 500

HEALTHY == "healthy"
DEGRADED == "degraded"
UNHEALTHY == "unhealthy"

-----------------------------------------------------------------------------
(* Values *)

\* The plaintext tokens a client or an operator may use.
Tokens == 1 .. NumTokens

\* api_key is None: the request carries no such header.
None == 0

\* The names of the headers a request may carry a key in.
HeaderNames == {API_KEY_HEADER_NAME, "X-Custom-Key"}

EmptyHash == <<>>

hash_token(token) == <<"sha256", token>>

Digests == {hash_token(t) : t \in Tokens}


-----------------------------------------------------------------------------
(* Token verification: authentication_handler.py *)

NO_HASH_MSG == "No stored token hash found for verification."

\* verify_token without its check of an empty stored hash.
verify_token_unchecked(token, stored_hash) ==
    [raised |-> "none", msg |-> "",
     result |-> (hash_token(token) = stored_hash)]

\* verify_token answering False for an empty stored hash.
verify_token_empty_false(token, stored_hash) ==
    IF stored_hash = EmptyHash
    THEN [raised |-> "none", msg |-> "", result |-> FALSE]
    ELSE [raised |-> "none", msg |-> "",
          result |-> (hash_token(token) = stored_hash)]

\* verify_token comparing the token itself with the stored hash.
verify_token_unhashed(token, stored_hash) ==
    IF stored_hash = EmptyHash
    THEN [raised |-> "ValueError", msg |-> NO_HASH_MSG, result |-> FALSE]
    ELSE [raised |-> "none", msg |-> "",
          result |-> (<<"plain", token>> = stored_hash)]

\* verify_token: raises ValueError when the stored hash is empty, otherwise
\* returns whether the hash of the token equals the stored hash.
verify_token(token, stored_hash) ==
    IF stored_hash = EmptyHash
    THEN [raised |-> "ValueError", msg |-> NO_HASH_MSG, result |-> FALSE]
    ELSE [raised |-> "none", msg |-> "",
          result |-> (hash_token(token) = stored_hash)]

-----------------------------------------------------------------------------
(* The Authentication Gate: TemplateServer._verify_api_key *)

\* The value FastAPI passes as api_key: the gate's parameter is declared with
\* Security(APIKeyHeader(name=API_KEY_HEADER_NAME, auto_error=False)), so the
\* key is read from the header named by the module constant; the instance's
\* api_key_header_name is not consulted.
GateHeaderName(configured_name) == API_KEY_HEADER_NAME

ApiKeyOf(headers, configured_name) == headers[GateHeaderName(configured_name)]

\* _verify_api_key answering a ValueError of verify_token with the detail of
\* a wrong key instead of str(e).
verify_api_key_generic(api_key, stored_hash) ==
    IF api_key = None
    THEN [outcome |-> "missing", status |-> UNAUTHORIZED,
          detail |-> "Missing API key"]
    ELSE LET v == verify_token(api_key, stored_hash) IN
         IF v.raised = "ValueError"
         THEN [outcome |-> "error", status |-> UNAUTHORIZED,
               detail |-> "Invalid API key"]
         ELSE IF ~v.result
              THEN [outcome |-> "invalid", status |-> UNAUTHORIZED,
                    detail |-> "Invalid API key"]
              ELSE [outcome |-> "success", status |-> OK, detail |-> ""]

\* The outcome of _verify_api_key(api_key): "success" when it returns, or the
\* HTTPException it raises.
verify_api_key(api_key, stored_hash) ==
    IF api_key = None
    THEN [outcome |-> "missing", status |-> UNAUTHORIZED,
          detail |-> "Missing API key"]
    ELSE LET v == verify_token(api_key, stored_hash) IN
         IF v.raised = "ValueError"
         THEN [outcome |-> "error", status |-> UNAUTHORIZED, detail |-> v.msg]
         ELSE IF ~v.result
              THEN [outcome |-> "invalid", status |-> UNAUTHORIZED,
                    detail |-> "Invalid API key"]
              ELSE [outcome |-> "success", status |-> OK, detail |-> ""]

\* The HTTPException _verify_api_key raised, NoRaise when it returned.
NoRaise == [status |-> 0, detail |-> ""]
Raised(out) ==
    IF out.outcome = "success" THEN NoRaise
    ELSE [status |-> out.status, detail |-> out.detail]

\* No call of verify_token: the gate was not invoked, or had no key to verify.
NoVerify == [called |-> FALSE, token |-> None, stored_hash |-> EmptyHash,
             raised |-> "none", msg |-> "", result |-> FALSE]

\* The call verify_token(api_key, stored_hash) the gate makes at line 171,
\* with what it raised or returned.
VerifyCall(api_key, stored_hash) ==
    IF api_key = None THEN NoVerify
    ELSE LET v == verify_token(api_key, stored_hash) IN
         [called |-> TRUE, token |-> api_key, stored_hash |-> stored_hash,
          raised |-> v.raised, msg |-> v.msg, result |-> v.result]

\* The counters the gate changes for an outcome.  _verify_api_key calls no
\* PrometheusHandler method (the server holds no handler), so none changes.
GateMetrics(m, outcome) == m

-----------------------------------------------------------------------------
(* Route registration: add_unauthenticated_route, add_authenticated_route,  *)
(* setup_routes                                                             *)

add_unauthenticated_route(routes, endpoint, handler_function, limited) ==
    Append(routes, [endpoint |-> endpoint, handler |-> handler_function,
                    limited |-> limited, dependencies |-> {}])

\* add_authenticated_route without the dependencies argument.
add_authenticated_route_open(routes, endpoint, handler_function, limited) ==
    add_unauthenticated_route(routes, endpoint, handler_function, limited)

add_authenticated_route(routes, endpoint, handler_function, limited) ==
    Append(routes, [endpoint |-> endpoint, handler |-> handler_function,
                    limited |-> limited,
                    dependencies |-> {"_verify_api_key"}])

setup_routes ==
    add_authenticated_route(
        add_unauthenticated_route(<<>>, "/health", "get_health", FALSE),
        "/login", "get_login", TRUE)

Endpoints == {setup_routes[i].endpoint : i \in DOMAIN setup_routes}

RouteOf(endpoint) ==
    setup_routes[CHOOSE i \in DOMAIN setup_routes :
                    setup_routes[i].endpoint = endpoint]

-----------------------------------------------------------------------------
(* Responses and handlers *)

NoResp == [status |-> 0, detail |-> "", code |-> 0, message |-> "",
           health |-> "", retry_after |-> <<>>]

\* An HTTPException rendered by the framework: its status, body {"detail"}.
ErrorResponse(status, detail) ==
    [status |-> status, detail |-> detail, code |-> 0, message |-> "",
     health |-> "", retry_after |-> <<>>]

\* A model returned by a handler is sent with the route's status code; the
\* routes are registered without one, which is 200.
ModelResponse(body) ==
    [status |-> OK, detail |-> "", code |-> body.code,
     message |-> body.message, health |-> body.health, retry_after |-> <<>>]

NOT_FOUND == 404

\* What the application below the middleware does with a request: it returns
\* a response, or an exception leaves it.
Returned(response) == [raised |-> FALSE, resp |-> response]

\* The static directory of the server: absent, present without a 404.html
\* file, present with one.
StaticDirs == {"absent", "no 404.html", "with 404.html"}

\* custom_404_handler(request, exc), registered for every HTTPException when
\* the static directory exists: the 404.html document for a 404 when the
\* file exists, and `raise exc` otherwise.  An exception leaving an exception
\* handler is not handled again: it leaves the application.
custom_404_handler(dir, status, detail) ==
    IF status = NOT_FOUND /\ dir = "with 404.html"
    THEN Returned(ErrorResponse(NOT_FOUND, "404.html"))
    ELSE [raised |-> TRUE, resp |-> NoResp]

\* The response to an HTTPException: the framework's handler renders it
\* unless setup_routes has registered custom_404_handler in its place.
http_exception_response(dir, status, detail) ==
    IF dir = "absent" THEN Returned(ErrorResponse(status, detail))
    ELSE custom_404_handler(dir, status, detail)

\* The response to a request no route matches: without a static directory
\* the router raises HTTPException(404); with one, the mount at "/" takes the
\* request and StaticFiles(html=True) serves 404.html with status 404 when
\* the file exists, and raises HTTPException(404) when it does not.
not_found_response(dir) ==
    IF dir = "with 404.html"
    THEN Returned(ErrorResponse(NOT_FOUND, "404.html"))
    ELSE http_exception_response(dir, NOT_FOUND, "Not Found")

get_health(stored_hash) ==
    IF stored_hash = EmptyHash
    THEN [code |-> INTERNAL_SERVER_ERROR,
          message |-> "Server token is not configured", health |-> UNHEALTHY]
    ELSE [code |-> OK, message |-> "Server is healthy", health |-> HEALTHY]

get_login == [code |-> OK, message |-> "Login successful.", health |-> ""]

HandlerResult(handler, stored_hash) ==
    IF handler = "get_health" THEN get_health(stored_hash) ELSE get_login

-----------------------------------------------------------------------------
(* Middleware *)

HSTS_MAX_AGE == 31536000
CONTENT_SECURITY_POLICY == "default-src 'self'"

NoHeaders ==
    [sts_max_age |-> 0, sts_include_subdomains |-> FALSE,
     x_content_type_options |-> "", x_frame_options |-> "",
     content_security_policy |-> "", x_xss_protection |-> "",
     referrer_policy |-> ""]

\* SecurityHeadersMiddleware.dispatch: the six headers are set on the
\* response call_next returned; an exception of call_next leaves dispatch.
security_headers_dispatch(down) ==
    IF down.raised THEN NoHeaders
    ELSE [sts_max_age |-> HSTS_MAX_AGE, sts_include_subdomains |-> TRUE,
          x_content_type_options |-> "nosniff", x_frame_options |-> "DENY",
          content_security_policy |-> CONTENT_SECURITY_POLICY,
          x_xss_protection |-> "1; mode=block",
          referrer_policy |-> "strict-origin-when-cross-origin"]

\* The peer of a request: request.client, which may be None.
Clients == {[present |-> FALSE, host |-> "", port |-> 0],
            [present |-> TRUE, host |-> "127.0.0.1", port |-> 50000]}

\* RequestLoggingMiddleware.dispatch, lines 21-30: the entry logged before
\* call_next.
RequestEntry(request) ==
    [kind |-> "Request", path |-> request.endpoint,
     host |-> IF request.client.present THEN request.client.host
              ELSE "unknown",
     port |-> IF request.client.present THEN request.client.port ELSE 0,
     status |-> 0]

ResponseEntry(request, status) ==
    [kind |-> "Response", path |-> request.endpoint, host |-> "", port |-> 0,
     status |-> status]

\* RequestLoggingMiddleware.dispatch, lines 32-41: the entry logged after
\* call_next returned; an exception of call_next leaves dispatch before it.
request_logging_dispatch(log, request, down) ==
    IF down.raised THEN log
    ELSE Append(log, ResponseEntry(request, down.resp.status))

\* The response the client receives: the one that came back through the
\* middleware, or the 500 of the server-error middleware, which is outside
\* them, when an exception left the application.
ClientResponse(down) ==
    IF down.raised
    THEN ErrorResponse(INTERNAL_SERVER_ERROR, "Internal Server Error")
    ELSE down.resp

-----------------------------------------------------------------------------
(* Rate limiting *)

TOO_MANY_REQUESTS == 429

\* A RateLimitExceeded: retry_after is <<>> when the exception has no such
\* attribute, <<n>> when it has.
RateLimitExceptions == [retry_after : {<<>>, <<42>>}]

\* _rate_limit_exception_handler(request, exc): the response, and the
\* counters after it.
rate_limit_exception_handler(m, exc) ==
    [resp |-> [status |-> TOO_MANY_REQUESTS, detail |-> "Rate limit exceeded",
               code |-> 0, message |-> "", health |-> "",
               retry_after |-> exc.retry_after],
     metrics |-> m]

\* _limit_route wrapping every handler when there is a limiter.
limit_route_all(has_limiter, route) == has_limiter

\* _limit_route: the handler of a route registered with limited=True is
\* wrapped by the limiter's decorator when there is a limiter.
limit_route(has_limiter, route) == has_limiter /\ route.limited

\* The decorator's check before the wrapped handler runs: the hit is
\* counted unless the window is full, and then RateLimitExceeded is raised.
check_request_limit(count) ==
    IF count >= RateLimitCount THEN [raised |-> TRUE, hits |-> count]
    ELSE [raised |-> FALSE, hits |-> count + 1]

-----------------------------------------------------------------------------
(* Requests *)

NoReq == [endpoint |-> "", headers |-> [h \in HeaderNames |-> None],
          client |-> [present |-> FALSE, host |-> "", port |-> 0]]

Requests == [endpoint : Endpoints,
             headers : [HeaderNames -> Tokens \cup {None}],
             client : Clients]

MetricKeys == {"auth_success_total", "auth_failure_total:missing",
               "auth_failure_total:invalid", "auth_failure_total:error",
               "rate_limit_exceeded_total"}

InitAuth ==
    /\ api_key_header_name \in HeaderNames
    /\ static_dir \in StaticDirs
    /\ hashed_token \in {EmptyHash} \cup Digests
    /\ limiter \in BOOLEAN
    /\ hits = 0
    /\ rpc = "idle"
    /\ req = NoReq
    /\ gate_api_key = None
    /\ gate_outcome = "none"
    /\ gate_raised = NoRaise
    /\ verified = NoVerify
    /\ handler_ran = "none"
    /\ resp = NoResp
    /\ resp_headers = NoHeaders
    /\ request_log = <<>>
    /\ metrics = [k \in MetricKeys |-> 0]

\* The router matches a request to its route.
ReceiveRequest(r) ==
    /\ rpc = "idle"
    /\ rpc' = "routed"
    /\ req' = r
    /\ gate_api_key' = None
    /\ gate_outcome' = "none"
    /\ gate_raised' = NoRaise
    /\ verified' = NoVerify
    /\ handler_ran' = "none"
    /\ resp' = NoResp
    /\ resp_headers' = NoHeaders
    /\ request_log' = <<RequestEntry(r)>>
    /\ UNCHANGED <<api_key_header_name, static_dir, hashed_token, limiter,
                   hits, metrics>>
    /\ UNCHANGED notAuth

\* The route's dependencies are resolved: _verify_api_key runs with the key
\* taken from the request.
RunGate ==
    /\ rpc = "routed"
    /\ "_verify_api_key" \in RouteOf(req.endpoint).dependencies
    /\ LET api_key == ApiKeyOf(req.headers, api_key_header_name)
           out == verify_api_key(api_key, hashed_token)
       IN /\ gate_api_key' = api_key
          /\ gate_outcome' = out.outcome
          /\ gate_raised' = Raised(out)
          /\ verified' = VerifyCall(api_key, hashed_token)
          /\ metrics' = GateMetrics(metrics, out.outcome)
          /\ IF out.outcome = "success"
             THEN /\ rpc' = "authorized"
                  /\ UNCHANGED <<resp, resp_headers, request_log>>
             ELSE LET down == http_exception_response(static_dir, out.status,
                                                      out.detail)
                  IN /\ rpc' = "responded"
                     /\ resp' = ClientResponse(down)
                     /\ resp_headers' = security_headers_dispatch(down)
                     /\ request_log' =
                           request_logging_dispatch(request_log, req, down)
    /\ UNCHANGED <<api_key_header_name, static_dir, hashed_token, req, limiter,
                   hits, handler_ran>>
    /\ UNCHANGED notAuth

\* The route's handler runs: at once for a route without dependencies, after
\* the gate returned for a route with the gate as its dependency.
CallHandler ==
    /\ \/ rpc = "authorized"
       \/ rpc = "routed" /\ RouteOf(req.endpoint).dependencies = {}
    /\ LET route == RouteOf(req.endpoint)
           checked == IF limit_route(limiter, route)
                      THEN check_request_limit(hits)
                      ELSE [raised |-> FALSE, hits |-> hits]
       IN /\ hits' = checked.hits
          /\ IF checked.raised
             THEN \E exc \in RateLimitExceptions :
                     LET out == rate_limit_exception_handler(metrics, exc)
                     IN /\ handler_ran' = "none"
                        /\ resp' = out.resp
                        /\ metrics' = out.metrics
             ELSE /\ handler_ran' = route.handler
                  /\ resp' = ModelResponse(HandlerResult(route.handler,
                                                         hashed_token))
                  /\ metrics' = metrics
    /\ resp_headers' = security_headers_dispatch(Returned(resp'))
    /\ request_log' =
          request_logging_dispatch(request_log, req, Returned(resp'))
    /\ rpc' = "responded"
    /\ UNCHANGED <<api_key_header_name, static_dir, hashed_token, req,
                   gate_api_key, gate_outcome, gate_raised, verified, limiter>>
    /\ UNCHANGED notAuth

\* The response is sent and the application waits for the next request.
SendResponse ==
    /\ rpc = "responded"
    /\ rpc' = "idle"
    /\ req' = NoReq
    /\ gate_api_key' = None
    /\ gate_outcome' = "none"
    /\ gate_raised' = NoRaise
    /\ verified' = NoVerify
    /\ handler_ran' = "none"
    /\ resp' = NoResp
    /\ resp_headers' = NoHeaders
    /\ request_log' = <<>>
    /\ UNCHANGED <<api_key_header_name, static_dir, hashed_token, limiter,
                   hits, metrics>>
    /\ UNCHANGED notAuth

\* A request for a path no route matches is answered.
NotFound(headers, client) ==
    /\ rpc = "idle"
    /\ rpc' = "responded"
    /\ LET r == [endpoint |-> "/missing", headers |-> headers,
                 client |-> client]
           down == not_found_response(static_dir)
       IN /\ req' = r
          /\ resp' = ClientResponse(down)
          /\ resp_headers' = security_headers_dispatch(down)
          /\ request_log' =
                request_logging_dispatch(<<RequestEntry(r)>>, r, down)
    /\ UNCHANGED <<api_key_header_name, static_dir, hashed_token,
                   gate_api_key, gate_outcome, gate_raised, verified,
                   limiter, hits, handler_ran, metrics>>
    /\ UNCHANGED notAuth

\* The limiter's window ends and the count starts again.
WindowExpires ==
    /\ hits > 0
    /\ hits' = 0
    /\ UNCHANGED <<api_key_header_name, static_dir, hashed_token, rpc, req,
                   gate_api_key, gate_outcome, gate_raised, verified,
                   limiter, handler_ran, resp, resp_headers, request_log,
                   metrics>>
    /\ UNCHANGED notAuth

NextAuth ==
    \/ \E r \in Requests : ReceiveRequest(r)
    \/ RunGate
    \/ CallHandler
    \/ SendResponse
    \/ \E h \in [HeaderNames -> Tokens \cup {None}], c \in Clients :
          NotFound(h, c)
    \/ WindowExpires

-----------------------------------------------------------------------------
(* Certificate files: certificate_handler.py *)

Absent == <<"absent">>
\* A file that was opened for writing and not written completely.
Partial == <<"partial">>
\* The PEM of the private key generated by the g-th process, or of the
\* certificate signed with that key (generation 0: before the first start).
Pem(g) == <<"pem", g>>

\* The ways a write of a file can end: done, open() raising, write() raising.
WriteFaults == {"ok", "open:PermissionError", "open:OSError", "write:OSError"}

\* CertificateHandler._write_to_file(file_path, data) on a file holding
\* `content`: open("wb") truncates the file, write() fills it.
write_to_file(content, data, fault) ==
    IF fault = "ok" THEN [file |-> data, opened |-> TRUE, raised |-> "none"]
    ELSE IF fault = "open:PermissionError"
    THEN [file |-> content, opened |-> FALSE, raised |-> "PermissionError"]
    ELSE IF fault = "open:OSError"
    THEN [file |-> content, opened |-> FALSE, raised |-> "OSError"]
    ELSE [file |-> Partial, opened |-> TRUE, raised |-> "OSError"]

\* The ways creating the certificate directory can end: it exists afterwards,
\* mkdir raises, or it returns and the directory is not there.
MkdirOutcomes == {"ok", "PermissionError", "OSError", "not_created"}

-----------------------------------------------------------------------------
(* TemplateServer.run *)

\* The condition of run(): cert_file.exists() and key_file.exists().
CertPairExistsCertOnly(cert, key) == cert # Absent

CertPairExists(cert, key) == cert # Absent /\ key # Absent

\* What an exception leaving generate_self_signed_cert or uvicorn.run does to
\* the process: `except Exception` logs it and calls sys.exit(1); SystemExit
\* raised by sys.exit(1) in the handler is no Exception and ends the process
\* with its own status, 1.
AfterRaiseSwallowed(exc) == [pc |-> "start", exit |-> "none"]

AfterRaise(exc) == [pc |-> "exited", exit |-> "1"]

\* What uvicorn can load as a TLS key pair: two complete PEM files of one
\* generation.
PairLoadable(cert, key) ==
    /\ cert \notin {Absent, Partial}
    /\ cert = key

InitCert ==
    /\ auto_bootstrap \in BOOLEAN
    /\ interrupted = FALSE
    /\ key_file \in {Absent, Pem(0)}
    /\ cert_file \in {Absent, Pem(0)}
    /\ starts = 1
    /\ run_pc = "constructed"
    /\ boot_key = Absent
    /\ boot_cert = Absent
    /\ written = {}
    /\ raised = "none"
    /\ exit_status = "none"
    /\ listener = FALSE

\* run(), lines 276-281: look for the two files and decide.
RunCheck ==
    /\ run_pc = "constructed"
    /\ boot_key' = key_file
    /\ boot_cert' = cert_file
    /\ run_pc' = IF CertPairExists(cert_file, key_file)
                 THEN "start" ELSE "mkdir"
    /\ UNCHANGED <<auto_bootstrap, interrupted, key_file, cert_file, starts,
                   written, raised, exit_status, listener>>
    /\ UNCHANGED notCert

\* The process ends on the exception exc raised at run_pc.
Raise(exc) ==
    /\ raised' = exc
    /\ run_pc' = AfterRaise(exc).pc
    /\ exit_status' = AfterRaise(exc).exit

\* generate_self_signed_cert, lines 72-105: the directory, then the key pair
\* and the signed certificate in memory.
GenMkdir(outcome) ==
    /\ run_pc = "mkdir"
    /\ IF outcome = "ok"
       THEN /\ run_pc' = "write_key"
            /\ UNCHANGED <<raised, exit_status>>
       ELSE IF outcome = "not_created"
       THEN Raise("SystemExit")
       ELSE Raise(outcome)
    /\ UNCHANGED <<auto_bootstrap, interrupted, key_file, cert_file, starts,
                   boot_key, boot_cert, written, listener>>
    /\ UNCHANGED notCert

\* generate_self_signed_cert, lines 108-116: write the private key.
GenWriteKey(fault) ==
    /\ run_pc = "write_key"
    /\ LET w == write_to_file(key_file, Pem(starts), fault) IN
          /\ key_file' = w.file
          /\ written' = IF w.opened THEN written \cup {"key"} ELSE written
          /\ IF w.raised = "none"
             THEN /\ run_pc' = "write_cert"
                  /\ UNCHANGED <<raised, exit_status>>
             ELSE Raise(w.raised)
    /\ UNCHANGED <<auto_bootstrap, interrupted, cert_file, starts, boot_key,
                   boot_cert, listener>>
    /\ UNCHANGED notCert

\* generate_self_signed_cert, lines 118-119: write the certificate.
GenWriteCert(fault) ==
    /\ run_pc = "write_cert"
    /\ LET w == write_to_file(cert_file, Pem(starts), fault) IN
          /\ cert_file' = w.file
          /\ written' = IF w.opened THEN written \cup {"cert"} ELSE written
          /\ IF w.raised = "none"
             THEN /\ run_pc' = "start"
                  /\ UNCHANGED <<raised, exit_status>>
             ELSE Raise(w.raised)
    /\ UNCHANGED <<auto_bootstrap, interrupted, key_file, starts, boot_key,
                   boot_cert, listener>>
    /\ UNCHANGED notCert

\* The process is killed after the private key is written and before the
\* certificate is: no handler runs and the files stay as they are.
Interrupt ==
    /\ run_pc = "write_cert"
    /\ run_pc' = "exited"
    /\ exit_status' = "killed"
    /\ UNCHANGED <<auto_bootstrap, interrupted, key_file, cert_file, starts,
                   boot_key, boot_cert, written, raised, listener>>
    /\ UNCHANGED notCert

\* run(), lines 283-292: uvicorn.run serves, or raises (a key pair it cannot
\* load, a port it cannot bind).
UvicornRun(ok) ==
    /\ run_pc = "start"
    /\ exit_status = "none"
    /\ IF ok /\ PairLoadable(cert_file, key_file)
       THEN /\ listener' = TRUE
            /\ run_pc' = "serving"
            /\ UNCHANGED <<raised, exit_status>>
       ELSE /\ listener' = FALSE
            /\ Raise("OSError")
    /\ UNCHANGED <<auto_bootstrap, interrupted, key_file, cert_file, starts,
                   boot_key, boot_cert, written>>
    /\ UNCHANGED notCert

\* run(), line 293: uvicorn.run returns on shutdown and run() returns.
ServerStops ==
    /\ run_pc = "serving"
    /\ listener' = FALSE
    /\ run_pc' = "stopped"
    /\ exit_status' = "0"
    /\ UNCHANGED <<auto_bootstrap, interrupted, key_file, cert_file, starts,
                   boot_key, boot_cert, written, raised>>
    /\ UNCHANGED notCert

\* The operator starts the server again after it ended.
Restart ==
    /\ exit_status # "none"
    /\ starts < MaxStarts
    /\ starts' = starts + 1
    /\ run_pc' = "constructed"
    /\ boot_key' = Absent
    /\ boot_cert' = Absent
    /\ written' = {}
    /\ raised' = "none"
    /\ exit_status' = "none"
    /\ listener' = FALSE
    /\ interrupted' = (exit_status = "killed")
    /\ UNCHANGED <<auto_bootstrap, key_file, cert_file>>
    /\ UNCHANGED notCert

NextCert ==
    \/ RunCheck
    \/ \E o \in MkdirOutcomes : GenMkdir(o)
    \/ \E f \in WriteFaults : GenWriteKey(f)
    \/ \E f \in WriteFaults : GenWriteCert(f)
    \/ Interrupt
    \/ \E ok \in BOOLEAN : UvicornRun(ok)
    \/ ServerStops
    \/ Restart

-----------------------------------------------------------------------------
(* The environment file as python-dotenv reads and writes it *)

ENV_VAR_NAME == "API_TOKEN_HASH"

OtherKeys == {"OTHER_A", "OTHER_B"}

EnvKeys == {ENV_VAR_NAME} \cup OtherKeys

\* The quote character.  The text of a value is a sequence of pieces, each a
\* sequence itself: <<Quote, v, Quote>> is 'v' and <<v>> is v unquoted.
Quote == <<"'">>

\* The value of every other key of the file.
OtherValue == <<"other">>

Unset == <<"unset">>

NotLoaded == <<"not loaded">>

\* The value a parsed line binds: the text without its enclosing quotes.
ParseValue(raw) ==
    IF Len(raw) = 3 /\ raw[1] = Quote /\ raw[3] = Quote
    THEN raw[2] ELSE raw[1]

\* The line dotenv.set_key writes (quote_mode "always"), with its newline.
LineOut(key, value) ==
    [key |-> key, raw |-> <<Quote, value, Quote>>, nl |-> TRUE]

\* dotenv.set_key writing one more line whatever the file holds.
set_key_append(file, key, value) == Append(file, LineOut(key, value))

\* dotenv.set_key(path, key, value): every line binding the key is replaced
\* by the new line and every other line is copied; when no line was
\* replaced the new line is added at the end, after a newline if the last
\* line had none.
set_key(file, key, value) ==
    LET replaced == \E i \in DOMAIN file : file[i].key = key
        copied == [i \in DOMAIN file |->
                      IF file[i].key = key THEN LineOut(key, value)
                      ELSE file[i]]
        missing_newline == Len(file) > 0 /\ ~file[Len(file)].nl
    IN IF replaced THEN copied
       ELSE Append(IF missing_newline
                   THEN [copied EXCEPT ![Len(file)].nl = TRUE]
                   ELSE copied,
                   LineOut(key, value))

\* dotenv_values: the value the file binds to a key (the last line binding
\* it), Unset when no line does.
DotenvValue(file, key) ==
    LET at == {i \in DOMAIN file : file[i].key = key} IN
        IF at = {} THEN Unset
        ELSE ParseValue(file[CHOOSE i \in at : \A j \in at : j <= i].raw)

\* dotenv.load_dotenv(path) with its default override=False: a key of the
\* file is put into os.environ unless os.environ holds the key already.
load_dotenv(file, environ) ==
    [k \in EnvKeys |->
        IF environ[k] # Unset THEN environ[k]
        ELSE DotenvValue(file, k)]

\* os.getenv(key, default)
os_getenv(environ, key, default) ==
    IF environ[key] = Unset THEN default ELSE environ[key]

-----------------------------------------------------------------------------
(* The token store: authentication_handler.py *)

\* The lines of an environment file written by an operator or by an earlier
\* save: at most MaxLines lines and no key bound twice.  A hash line holds a
\* digest, quoted (as set_key writes it) or not; only the last line may
\* lack its newline.
HashValues == {<<Quote, d, Quote>> : d \in Digests} \cup {<<d>> : d \in Digests}

EnvLines ==
    [key : {ENV_VAR_NAME}, raw : HashValues, nl : BOOLEAN]
        \cup [key : OtherKeys, raw : {<<OtherValue>>}, nl : BOOLEAN]

EnvFileOfLen(n) ==
    {f \in [1 .. n -> EnvLines] :
        /\ \A i, j \in 1 .. n : i # j => f[i].key # f[j].key
        /\ \A i \in 1 .. n : i < n => f[i].nl}

EnvFiles == UNION {EnvFileOfLen(n) : n \in 0 .. MaxLines}

InitToken ==
    /\ env_exists \in BOOLEAN
    /\ env_file \in IF env_exists THEN EnvFiles ELSE {<<>>}
    /\ env_initial = env_file
    /\ os_environ = [k \in EnvKeys |-> Unset]
    /\ last_saved = None
    /\ loaded = NotLoaded

\* save_hashed_token(token)
SaveHashedToken(token) ==
    /\ LET hashed == hash_token(token)
           touched == IF ~env_exists THEN <<>> ELSE env_file
       IN env_file' = set_key(touched, ENV_VAR_NAME, hashed)
    /\ env_exists' = TRUE
    /\ last_saved' = token
    /\ loaded' = NotLoaded
    /\ UNCHANGED <<env_initial, os_environ>>
    /\ UNCHANGED notToken

\* load_hashed_token()
LoadHashedToken ==
    /\ LET environ == load_dotenv(env_file, os_environ) IN
          /\ os_environ' = environ
          /\ loaded' = os_getenv(environ, ENV_VAR_NAME, EmptyHash)
    /\ UNCHANGED <<env_exists, env_file, env_initial, last_saved>>
    /\ UNCHANGED notToken

\* The process ends and another starts with the variable not exported.
NewProcess ==
    /\ os_environ # [k \in EnvKeys |-> Unset]
    /\ os_environ' = [k \in EnvKeys |-> Unset]
    /\ loaded' = NotLoaded
    /\ UNCHANGED <<env_exists, env_file, env_initial, last_saved>>
    /\ UNCHANGED notToken

NextToken ==
    \/ \E t \in Tokens : SaveHashedToken(t)
    \/ LoadHashedToken
    \/ NewProcess

-----------------------------------------------------------------------------
(* TemplateServer.load_config *)

\* An optional JSON field: absent, or present with a value.
NoField == <<>>
Field(v) == <<v>>

\* The ports and validity periods a configuration file or a command line
\* carries: the ends of the valid ranges, their neighbours and the defaults.
PORT_MIN == 1
PORT_MAX == 65535
PORT_DEFAULT == 8000
DAYS_VALID_MIN == 1
DAYS_VALID_DEFAULT == 365

FilePorts == {PORT_MIN - 1, PORT_MIN, PORT_DEFAULT, PORT_MAX, PORT_MAX + 1}
FileDays == {DAYS_VALID_MIN - 1, DAYS_VALID_MIN, DAYS_VALID_DEFAULT}
ArgPorts == {PORT_MIN - 1, 8080, PORT_MAX + 5}

\* A JSON document: server.port and certificate.days_valid, each optional.
Documents ==
    [port : {NoField} \cup {Field(p) : p \in FilePorts},
     days_valid : {NoField} \cup {Field(d) : d \in FileDays}]

EmptyDocument == [port |-> NoField, days_valid |-> NoField]

\* The file: missing, present but not readable, not JSON, or a document.
JsonFile(doc) == [kind |-> "json", doc |-> doc]
MissingFile == [kind |-> "missing", doc |-> EmptyDocument]
UnreadableFile == [kind |-> "unreadable", doc |-> EmptyDocument]
InvalidJsonFile == [kind |-> "invalid json", doc |-> EmptyDocument]

ConfigFiles ==
    {MissingFile, UnreadableFile, InvalidJsonFile}
        \cup {JsonFile(doc) : doc \in Documents}

\* The command line: no option, --port with an integer, or something the
\* parser rejects.
NoArgs == [kind |-> "none", port |-> 0]
PortArg(p) == [kind |-> "port", port |-> p]
BadArgs == [kind |-> "bad", port |-> 0]
Argvs == {NoArgs, BadArgs} \cup {PortArg(p) : p \in ArgPorts}

NoConfig == [loaded |-> FALSE, port |-> 0, days_valid |-> 0]
Config(port, days_valid) ==
    [loaded |-> TRUE, port |-> port, days_valid |-> days_valid]

\* validate_config replacing an invalid document by the default configuration.
validate_config_defaults(doc) ==
    LET port == IF doc.port = NoField THEN PORT_DEFAULT ELSE doc.port[1]
        days == IF doc.days_valid = NoField THEN DAYS_VALID_DEFAULT
                ELSE doc.days_valid[1]
        valid == /\ port >= PORT_MIN /\ port <= PORT_MAX
                 /\ days >= DAYS_VALID_MIN
    IN  IF valid THEN [raised |-> "none", config |-> Config(port, days)]
        ELSE [raised |-> "none",
              config |-> Config(PORT_DEFAULT, DAYS_VALID_DEFAULT)]

\* validate_config: TemplateServerConfig.model_validate.  An absent field
\* takes its default; a port outside [1, 65535] or days_valid below 1 raises
\* ValidationError.
validate_config(doc) ==
    LET port == IF doc.port = NoField THEN PORT_DEFAULT ELSE doc.port[1]
        days == IF doc.days_valid = NoField THEN DAYS_VALID_DEFAULT
                ELSE doc.days_valid[1]
        valid == /\ port >= PORT_MIN /\ port <= PORT_MAX
                 /\ days >= DAYS_VALID_MIN
    IN  IF valid THEN [raised |-> "none", config |-> Config(port, days)]
        ELSE [raised |-> "ValidationError", config |-> NoConfig]

\* argparser.add_argument("--port", ...): the module's parser keeps its
\* options for the life of the process, and a second registration of the same
\* option string raises ArgumentError.
add_argument(parser, option) ==
    IF option \in parser
    THEN [raised |-> "ArgumentError", parser |-> parser]
    ELSE [raised |-> "none", parser |-> parser \cup {option}]

\* argparser.parse_args(): the port given, else the default, which is the
\* validated port; the parser exits with status 2 on a command line it
\* rejects.
parse_args(argv, default) ==
    CASE argv.kind = "bad" -> [raised |-> "SystemExit(2)", port |-> default]
      [] argv.kind = "port" -> [raised |-> "none", port |-> argv.port]
      [] OTHER -> [raised |-> "none", port |-> default]

\* config.server.port = args.port: the models do not validate assignments.
assign_port(cfg, port) ==
    [raised |-> "none", config |-> [cfg EXCEPT !.port = port]]

SaveFaults == {"ok", "open:OSError", "write:OSError"}

\* save_to_file: opens the file for writing, which truncates it, and writes
\* the dumped model.
save_to_file(file, cfg, fault) ==
    CASE fault = "open:OSError" -> [raised |-> "OSError", file |-> file]
      [] fault = "write:OSError" ->
            [raised |-> "OSError", file |-> InvalidJsonFile]
      [] OTHER ->
            [raised |-> "none",
             file |-> JsonFile([port |-> Field(cfg.port),
                                days_valid |-> Field(cfg.days_valid)])]

\* How the process ends on an exception leaving load_config: the handlers of
\* lines 143-151 exit with status 1, the parser's SystemExit keeps its
\* status, and the interpreter ends with status 1 on an exception nobody
\* catches.
ExitOf(exc) == IF exc = "SystemExit(2)" THEN "2" ELSE "1"

\* The whole of load_config, as the result of its steps in order: the first
\* step that raises ends it.
load_config(file, argv, parser, fault) ==
    LET failed(exc, f, p) ==
            [pc |-> "exited", config |-> NoConfig, raised |-> exc,
             exit |-> ExitOf(exc), file |-> f, parser |-> p]
        validated == validate_config(file.doc)
        added == add_argument(parser, "--port")
        args == parse_args(argv, validated.config.port)
        assigned == assign_port(validated.config, args.port)
        saved == save_to_file(file, assigned.config, fault)
    IN  CASE file.kind = "missing" -> failed("SystemExit(1)", file, parser)
          [] file.kind = "unreadable" -> failed("OSError", file, parser)
          [] file.kind = "invalid json" ->
                failed("JSONDecodeError", file, parser)
          [] validated.raised # "none" ->
                failed(validated.raised, file, parser)
          [] added.raised # "none" -> failed(added.raised, file, parser)
          [] args.raised # "none" -> failed(args.raised, file, added.parser)
          [] assigned.raised # "none" ->
                failed(assigned.raised, file, added.parser)
          [] saved.raised # "none" ->
                failed(saved.raised, saved.file, added.parser)
          [] OTHER ->
                [pc |-> "returned", config |-> assigned.config,
                 raised |-> "none", exit |-> "none", file |-> saved.file,
                 parser |-> added.parser]

InitConfig ==
    /\ config_file \in ConfigFiles
    /\ sys_argv \in Argvs
    /\ argparser = {}
    /\ config_read = MissingFile
    /\ config_pc = "idle"
    /\ config = NoConfig
    /\ config_raised = "none"
    /\ config_exit = "none"

\* A call of load_config in a running process: the constructor's, or a later
\* one in the same process.
LoadConfig(fault) ==
    /\ config_pc \in {"idle", "returned"}
    /\ LET out == load_config(config_file, sys_argv, argparser, fault) IN
          /\ config_read' = config_file
          /\ config_file' = out.file
          /\ argparser' = out.parser
          /\ config_pc' = out.pc
          /\ config' = out.config
          /\ config_raised' = out.raised
          /\ config_exit' = out.exit
    /\ UNCHANGED sys_argv
    /\ UNCHANGED notConfig

\* The next process: a fresh parser and its own command line.
NewConfigProcess(argv) ==
    /\ config_pc \in {"returned", "exited"}
    /\ sys_argv' = argv
    /\ argparser' = {}
    /\ config_pc' = "idle"
    /\ config' = NoConfig
    /\ config_raised' = "none"
    /\ config_exit' = "none"
    /\ UNCHANGED <<config_file, config_read>>
    /\ UNCHANGED notConfig

NextConfig ==
    \/ \E fault \in SaveFaults : LoadConfig(fault)
    \/ \E argv \in Argvs : NewConfigProcess(argv)

-----------------------------------------------------------------------------
(* The order of TemplateServer.__init__ and run() *)

\* The routes the base class registers in setup_routes, in order, and the
\* routes a subclass adds after calling it.
BaseRoutes == <<"/health", "/login">>
SubclassRouteLists == {<<>>, <<"/example">>}

\* The step that adds a route.
RouteStep(path) == <<"route", path>>
Step(name) == <<"step", name>>

RouteSteps(paths) == [i \in 1 .. Len(paths) |-> RouteStep(paths[i])]

InitStartup ==
    /\ startup_pc = "load_config"
    /\ startup_done = <<>>
    /\ cors_enabled \in BOOLEAN
    /\ rate_limit_enabled \in BOOLEAN
    /\ subclass_routes \in SubclassRouteLists
    /\ cert_pair_exists \in BOOLEAN
    /\ app_middleware = <<>>
    /\ app_routes = <<>>

\* The step `name` is complete and `next` follows; the configuration and the
\* files stay as they are.
Advance(name, next) ==
    /\ startup_done' = Append(startup_done, Step(name))
    /\ startup_pc' = next
    /\ UNCHANGED <<cors_enabled, rate_limit_enabled, subclass_routes>>
    /\ UNCHANGED notStartup

\* Line 76: self.config = config or self.load_config(...); a failed load
\* exits the process.
StartupLoadConfig(ok) ==
    /\ startup_pc = "load_config"
    /\ IF ok THEN Advance("load_config", "load_hashed_token")
       ELSE /\ startup_pc' = "exited"
            /\ UNCHANGED <<startup_done, cors_enabled, rate_limit_enabled,
                           subclass_routes>>
            /\ UNCHANGED notStartup
    /\ UNCHANGED <<cert_pair_exists, app_middleware, app_routes>>

\* Line 93: self.hashed_token = load_hashed_token().
StartupLoadHashedToken ==
    /\ startup_pc = "load_hashed_token"
    /\ Advance("load_hashed_token", "request_logging")
    /\ UNCHANGED <<cert_pair_exists, app_middleware, app_routes>>

StartupRequestLogging ==
    /\ startup_pc = "request_logging"
    /\ Advance("request_logging", "security_headers")
    /\ app_middleware' = Append(app_middleware, "RequestLoggingMiddleware")
    /\ UNCHANGED <<cert_pair_exists, app_routes>>

StartupSecurityHeaders ==
    /\ startup_pc = "security_headers"
    /\ Advance("security_headers", "cors")
    /\ app_middleware' = Append(app_middleware, "SecurityHeadersMiddleware")
    /\ UNCHANGED <<cert_pair_exists, app_routes>>

\* _setup_cors: adds the middleware only when CORS is enabled.
StartupCors ==
    /\ startup_pc = "cors"
    /\ Advance("cors", "rate_limiting")
    /\ app_middleware' =
          IF cors_enabled THEN Append(app_middleware, "CORSMiddleware")
          ELSE app_middleware
    /\ UNCHANGED <<cert_pair_exists, app_routes>>

\* _setup_rate_limiting: creates the limiter and the exception handler when
\* rate limiting is enabled; it adds no middleware.
StartupRateLimiting ==
    /\ startup_pc = "rate_limiting"
    /\ Advance("rate_limiting", "setup_routes")
    /\ UNCHANGED <<cert_pair_exists, app_middleware, app_routes>>

\* setup_routes of the base class: /health, then /login.
StartupSetupRoutes ==
    /\ startup_pc = "setup_routes"
    /\ startup_done' = startup_done \o RouteSteps(BaseRoutes)
    /\ app_routes' = app_routes \o BaseRoutes
    /\ startup_pc' = "subclass_routes"
    /\ UNCHANGED <<cors_enabled, rate_limit_enabled, subclass_routes,
                   cert_pair_exists, app_middleware>>
    /\ UNCHANGED notStartup

\* The rest of the subclass's setup_routes, which ends the constructor.
StartupSubclassRoutes ==
    /\ startup_pc = "subclass_routes"
    /\ startup_done' = startup_done \o RouteSteps(subclass_routes)
    /\ app_routes' = app_routes \o subclass_routes
    /\ startup_pc' = "run"
    /\ UNCHANGED <<cors_enabled, rate_limit_enabled, subclass_routes,
                   cert_pair_exists, app_middleware>>
    /\ UNCHANGED notStartup

\* run(), lines 276-281: the certificate and the key are looked for, and
\* generated when one is missing; a failed generation exits the process.
StartupCertificate(created) ==
    /\ startup_pc = "run"
    /\ IF cert_pair_exists \/ created
       THEN /\ Advance("certificate", "bind")
            /\ cert_pair_exists' = TRUE
       ELSE /\ startup_pc' = "exited"
            /\ UNCHANGED <<startup_done, cors_enabled, rate_limit_enabled,
                           subclass_routes, cert_pair_exists>>
            /\ UNCHANGED notStartup
    /\ UNCHANGED <<app_middleware, app_routes>>

\* run(), lines 284-292: uvicorn.run binds the socket.
StartupBind ==
    /\ startup_pc = "bind"
    /\ Advance("bind", "serving")
    /\ UNCHANGED <<cert_pair_exists, app_middleware, app_routes>>

NextStartup ==
    \/ \E ok \in BOOLEAN : StartupLoadConfig(ok)
    \/ StartupLoadHashedToken
    \/ StartupRequestLogging
    \/ StartupSecurityHeaders
    \/ StartupCors
    \/ StartupRateLimiting
    \/ StartupSetupRoutes
    \/ StartupSubclassRoutes
    \/ \E created \in BOOLEAN : StartupCertificate(created)
    \/ StartupBind

-----------------------------------------------------------------------------
(* The running server and the token generator *)

\* A printed line or a log record: its text and the values put into it.
Line(text, args) == [text |-> text, args |-> args]

GenerateFaults == {"ok", "touch:OSError", "set_key:OSError"}

\* generate_new_token with the token in the log record as well.
generate_new_token_logged(exists, file, token, fault, out, records) ==
    LET touched == IF ~exists THEN <<>> ELSE file IN
    CASE fault = "touch:OSError" ->
            [raised |-> "OSError", exists |-> exists, file |-> file,
             stdout |-> out, log |-> records]
      [] fault = "set_key:OSError" ->
            [raised |-> "OSError", exists |-> TRUE, file |-> touched,
             stdout |-> out, log |-> records]
      [] OTHER ->
            [raised |-> "none", exists |-> TRUE,
             file |-> set_key(touched, ENV_VAR_NAME, hash_token(token)),
             stdout |-> Append(out, Line("Token: ", <<token>>)),
             log |-> Append(records,
                            Line("New API token generated and saved.",
                                 <<token>>))]

\* generate_new_token printing the token before it saves the hash.
generate_new_token_print_first(exists, file, token, fault, out, records) ==
    LET touched == IF ~exists THEN <<>> ELSE file
        printed == Append(out, Line("Token: ", <<token>>))
    IN
    CASE fault = "touch:OSError" ->
            [raised |-> "OSError", exists |-> exists, file |-> file,
             stdout |-> printed, log |-> records]
      [] fault = "set_key:OSError" ->
            [raised |-> "OSError", exists |-> TRUE, file |-> touched,
             stdout |-> printed, log |-> records]
      [] OTHER ->
            [raised |-> "none", exists |-> TRUE,
             file |-> set_key(touched, ENV_VAR_NAME, hash_token(token)),
             stdout |-> printed,
             log |-> Append(records,
                            Line("New API token generated and saved.",
                                 <<>>))]

\* generate_new_token() with the token generate_token() drew: the hash is
\* saved (save_hashed_token creates the file when it is absent, then
\* set_key), the record is logged, the token is printed.  An exception of
\* save_hashed_token leaves before the log and the print.
generate_new_token(exists, file, token, fault, out, records) ==
    LET touched == IF ~exists THEN <<>> ELSE file IN
    CASE fault = "touch:OSError" ->
            [raised |-> "OSError", exists |-> exists, file |-> file,
             stdout |-> out, log |-> records]
      [] fault = "set_key:OSError" ->
            [raised |-> "OSError", exists |-> TRUE, file |-> touched,
             stdout |-> out, log |-> records]
      [] OTHER ->
            [raised |-> "none", exists |-> TRUE,
             file |-> set_key(touched, ENV_VAR_NAME, hash_token(token)),
             stdout |-> Append(out, Line("Token: ", <<token>>)),
             log |-> Append(records,
                            Line("New API token generated and saved.",
                                 <<>>))]

\* load_hashed_token() in a process that starts with the variable not
\* exported.
HashAtStart(file) ==
    os_getenv(load_dotenv(file, [k \in EnvKeys |-> Unset]),
              ENV_VAR_NAME, EmptyHash)

\* The environment file when the server is first started: absent, or the
\* hash line of an earlier generation.
LifeEnvFiles == {<<>>} \cup {<<LineOut(ENV_VAR_NAME, d)>> : d \in Digests}

\* The server as __init__ leaves it: the hash loaded from the file.
InitLife ==
    /\ env_file \in LifeEnvFiles
    /\ env_exists = (env_file # <<>>)
    /\ env_initial = env_file
    /\ os_environ = load_dotenv(env_file, [k \in EnvKeys |-> Unset])
    /\ last_saved = None
    /\ loaded = HashAtStart(env_file)
    /\ api_key_header_name = API_KEY_HEADER_NAME
    /\ static_dir = "absent"
    /\ hashed_token = HashAtStart(env_file)
    /\ hash_at_start = HashAtStart(env_file)
    /\ limiter = FALSE
    /\ hits = 0
    /\ rpc = "idle"
    /\ req = NoReq
    /\ gate_api_key = None
    /\ gate_outcome = "none"
    /\ gate_raised = NoRaise
    /\ verified = NoVerify
    /\ handler_ran = "none"
    /\ resp = NoResp
    /\ resp_headers = NoHeaders
    /\ request_log = <<>>
    /\ metrics = [k \in MetricKeys |-> 0]
    /\ stdout = <<>>
    /\ log_records = <<>>
    /\ generated = <<>>

\* The generator with a server that takes up the new hash at once.
GenerateNewTokenLive(token, fault) ==
    /\ Len(generated) < MaxGenerations
    /\ LET out == generate_new_token(env_exists, env_file, token, fault,
                                     stdout, log_records)
       IN /\ env_exists' = out.exists
          /\ env_file' = out.file
          /\ stdout' = out.stdout
          /\ log_records' = out.log
          /\ generated' = IF out.raised = "none"
                          THEN Append(generated, token) ELSE generated
          /\ last_saved' = IF out.raised = "none" THEN token ELSE last_saved
          /\ hashed_token' = HashAtStart(out.file)
    /\ UNCHANGED <<env_initial, os_environ, loaded, hash_at_start>>
    /\ UNCHANGED <<api_key_header_name, static_dir, rpc, req, gate_api_key,
                   gate_outcome, gate_raised, verified, limiter, hits,
                   handler_ran, resp, resp_headers, request_log, metrics>>
    /\ UNCHANGED <<certVars, configVars, startupVars, counterVars>>

\* The generator runs, in a process of its own, while the server runs or is
\* stopped.
GenerateNewToken(token, fault) ==
    /\ Len(generated) < MaxGenerations
    /\ LET out == generate_new_token(env_exists, env_file, token, fault,
                                     stdout, log_records)
       IN /\ env_exists' = out.exists
          /\ env_file' = out.file
          /\ stdout' = out.stdout
          /\ log_records' = out.log
          /\ generated' = IF out.raised = "none"
                          THEN Append(generated, token) ELSE generated
          /\ last_saved' = IF out.raised = "none" THEN token ELSE last_saved
    /\ UNCHANGED <<env_initial, os_environ, loaded, hash_at_start>>
    /\ UNCHANGED <<authVars, certVars, configVars, startupVars,
                   counterVars>>

\* The server is stopped between two requests and started again: a new
\* process, whose __init__ loads the hash.
RestartServer ==
    /\ rpc = "idle"
    /\ os_environ' = load_dotenv(env_file, [k \in EnvKeys |-> Unset])
    /\ loaded' = HashAtStart(env_file)
    /\ hashed_token' = HashAtStart(env_file)
    /\ hash_at_start' = HashAtStart(env_file)
    /\ metrics' = [k \in MetricKeys |-> 0]
    /\ hits' = 0
    /\ UNCHANGED <<api_key_header_name, static_dir, rpc, req, gate_api_key,
                   gate_outcome, gate_raised, verified, limiter,
                   handler_ran, resp, resp_headers, request_log>>
    /\ UNCHANGED <<env_exists, env_file, env_initial, last_saved>>
    /\ UNCHANGED <<stdout, log_records, generated>>
    /\ UNCHANGED <<certVars, configVars, startupVars, counterVars>>

NextLife ==
    \/ \E r \in Requests : ReceiveRequest(r)
    \/ RunGate
    \/ CallHandler
    \/ SendResponse
    \/ \E t \in Tokens, fault \in GenerateFaults : GenerateNewToken(t, fault)
    \/ RestartServer

-----------------------------------------------------------------------------
(* The metric counters: PrometheusHandler.increment_counter *)

Workers == 1..NumWorkers

\* No worker holds the lock.
NoWorker == 0

\* BASE_METRICS_CONFIG: the type of each metric.
MetricTypeOf ==
    [token_configured |-> "gauge", auth_success_total |-> "counter",
     auth_failure_total |-> "counter"]

MetricNames == DOMAIN MetricTypeOf

\* The label values a call passes: none, or a reason.
LabelValues == {"", "missing", "invalid"}

\* The children of the counters: auth_success_total has no labels and is
\* its own child; auth_failure_total has one child per reason.
Children ==
    {<<"auth_success_total", "">>, <<"auth_failure_total", "missing">>,
     <<"auth_failure_total", "invalid">>}

NoChild == <<"", "">>

InitCounter ==
    /\ counter_value = [c \in Children |-> 0]
    /\ counter_lock = [c \in Children |-> NoWorker]
    /\ inc_pc = [w \in Workers |-> "idle"]
    /\ inc_child = [w \in Workers |-> NoChild]
    /\ inc_read = [w \in Workers |-> 0]

\* increment_counter up to the call of inc(): the metric is looked up, a
\* metric that is not a Counter raises TypeError, labels select the child;
\* labels the counter does not have, or lacks, raise ValueError.
increment_counter(w, name, labels) ==
    /\ inc_pc[w] = "idle"
    /\ IF MetricTypeOf[name] # "counter"
       THEN /\ inc_pc' = [inc_pc EXCEPT ![w] = "TypeError"]
            /\ UNCHANGED inc_child
       ELSE IF <<name, labels>> \notin Children
       THEN /\ inc_pc' = [inc_pc EXCEPT ![w] = "ValueError"]
            /\ UNCHANGED inc_child
       ELSE /\ inc_pc' = [inc_pc EXCEPT ![w] = "inc"]
            /\ inc_child' = [inc_child EXCEPT ![w] = <<name, labels>>]
    /\ UNCHANGED <<counter_value, counter_lock, inc_read>>
    /\ UNCHANGED <<authVars, certVars, tokenVars, configVars, startupVars,
                   lifeVars>>

\* inc() entering its critical section without taking the child's lock.
inc_enter_unlocked(w) ==
    /\ inc_pc[w] = "inc"
    /\ inc_pc' = [inc_pc EXCEPT ![w] = "locked"]
    /\ counter_lock' = [counter_lock EXCEPT ![inc_child[w]] = w]
    /\ UNCHANGED <<counter_value, inc_child, inc_read>>
    /\ UNCHANGED <<authVars, certVars, tokenVars, configVars, startupVars,
                   lifeVars>>

\* counter.inc(): "with self._lock:" waits until the child's lock is free.
inc_acquire(w) ==
    /\ inc_pc[w] = "inc"
    /\ counter_lock[inc_child[w]] = NoWorker
    /\ inc_pc' = [inc_pc EXCEPT ![w] = "locked"]
    /\ counter_lock' = [counter_lock EXCEPT ![inc_child[w]] = w]
    /\ UNCHANGED <<counter_value, inc_child, inc_read>>
    /\ UNCHANGED <<authVars, certVars, tokenVars, configVars, startupVars,
                   lifeVars>>

\* "self._value += amount" reads the value ...
inc_load(w) ==
    /\ inc_pc[w] = "locked"
    /\ inc_pc' = [inc_pc EXCEPT ![w] = "loaded"]
    /\ inc_read' = [inc_read EXCEPT ![w] = counter_value[inc_child[w]]]
    /\ UNCHANGED <<counter_value, counter_lock, inc_child>>
    /\ UNCHANGED <<authVars, certVars, tokenVars, configVars, startupVars,
                   lifeVars>>

\* ... and stores the sum.
inc_store(w) ==
    /\ inc_pc[w] = "loaded"
    /\ inc_pc' = [inc_pc EXCEPT ![w] = "stored"]
    /\ counter_value' =
           [counter_value EXCEPT ![inc_child[w]] = inc_read[w] + 1]
    /\ UNCHANGED <<counter_lock, inc_child, inc_read>>
    /\ UNCHANGED <<authVars, certVars, tokenVars, configVars, startupVars,
                   lifeVars>>

\* Leaving the with block releases the lock; increment_counter returns.
inc_release(w) ==
    /\ inc_pc[w] = "stored"
    /\ inc_pc' = [inc_pc EXCEPT ![w] = "returned"]
    /\ counter_lock' = [counter_lock EXCEPT ![inc_child[w]] = NoWorker]
    /\ UNCHANGED <<counter_value, inc_child, inc_read>>
    /\ UNCHANGED <<authVars, certVars, tokenVars, configVars, startupVars,
                   lifeVars>>

NextCounter ==
    \/ \E w \in Workers, name \in MetricNames, labels \in LabelValues :
           increment_counter(w, name, labels)
    \/ \E w \in Workers : inc_acquire(w)
    \/ \E w \in Workers : inc_load(w)
    \/ \E w \in Workers : inc_store(w)
    \/ \E w \in Workers : inc_release(w)

-----------------------------------------------------------------------------
(* Specifications *)

\* Between starts and outside a request, the other parts of the state.
AuthIdle ==
    /\ api_key_header_name = API_KEY_HEADER_NAME
    /\ static_dir = "absent"
    /\ hashed_token = EmptyHash
    /\ limiter = FALSE
    /\ hits = 0
    /\ rpc = "idle"
    /\ req = NoReq
    /\ gate_api_key = None
    /\ gate_outcome = "none"
    /\ gate_raised = NoRaise
    /\ verified = NoVerify
    /\ handler_ran = "none"
    /\ resp = NoResp
    /\ resp_headers = NoHeaders
    /\ request_log = <<>>
    /\ metrics = [k \in MetricKeys |-> 0]

CertIdle ==
    /\ auto_bootstrap = TRUE
    /\ interrupted = FALSE
    /\ key_file = Pem(0)
    /\ cert_file = Pem(0)
    /\ starts = 1
    /\ run_pc = "serving"
    /\ boot_key = Pem(0)
    /\ boot_cert = Pem(0)
    /\ written = {}
    /\ raised = "none"
    /\ exit_status = "none"
    /\ listener = TRUE

TokenIdle ==
    /\ env_exists = FALSE
    /\ env_file = <<>>
    /\ env_initial = <<>>
    /\ os_environ = [k \in EnvKeys |-> Unset]
    /\ last_saved = None
    /\ loaded = NotLoaded

ConfigIdle ==
    /\ config_file = JsonFile(EmptyDocument)
    /\ sys_argv = NoArgs
    /\ argparser = {}
    /\ config_read = MissingFile
    /\ config_pc = "idle"
    /\ config = NoConfig
    /\ config_raised = "none"
    /\ config_exit = "none"

StartupIdle ==
    /\ startup_pc = "serving"
    /\ startup_done = <<>>
    /\ cors_enabled = FALSE
    /\ rate_limit_enabled = FALSE
    /\ subclass_routes = <<>>
    /\ cert_pair_exists = TRUE
    /\ app_middleware = <<>>
    /\ app_routes = <<>>

CounterIdle ==
    /\ counter_value = [c \in Children |-> 0]
    /\ counter_lock = [c \in Children |-> NoWorker]
    /\ inc_pc = [w \in Workers |-> "idle"]
    /\ inc_child = [w \in Workers |-> NoChild]
    /\ inc_read = [w \in Workers |-> 0]

LifeIdle ==
    /\ hash_at_start = EmptyHash
    /\ stdout = <<>>
    /\ log_records = <<>>
    /\ generated = <<>>

OthersIdle == ConfigIdle /\ StartupIdle /\ LifeIdle /\ CounterIdle

\* The constructed server answering requests.
Init == InitAuth /\ CertIdle /\ TokenIdle /\ OthersIdle

Next == NextAuth

Spec == Init /\ [][Next]_vars

\* The processes executing run(), one after the other.
InitCertSpec == InitCert /\ AuthIdle /\ TokenIdle /\ OthersIdle

SpecCert == InitCertSpec /\ [][NextCert]_vars

\* The processes saving and loading the token hash.
InitTokenSpec == InitToken /\ AuthIdle /\ CertIdle /\ OthersIdle

SpecToken == InitTokenSpec /\ [][NextToken]_vars

\* The processes calling load_config.
InitConfigSpec ==
    /\ InitConfig /\ AuthIdle /\ CertIdle /\ TokenIdle /\ StartupIdle
    /\ LifeIdle /\ CounterIdle

SpecConfig == InitConfigSpec /\ [][NextConfig]_vars

\* One process from the constructor to the bound socket.
InitStartupSpec ==
    /\ InitStartup /\ AuthIdle /\ CertIdle /\ TokenIdle /\ ConfigIdle
    /\ LifeIdle /\ CounterIdle

SpecStartup == InitStartupSpec /\ [][NextStartup]_vars

\* The server answering requests, the generator and restarts.
InitLifeSpec ==
    InitLife /\ CertIdle /\ ConfigIdle /\ StartupIdle /\ CounterIdle

SpecLife == InitLifeSpec /\ [][NextLife]_vars

\* Workers of one process calling increment_counter at the same time.
InitCounterSpec ==
    /\ InitCounter /\ AuthIdle /\ CertIdle /\ TokenIdle /\ ConfigIdle
    /\ StartupIdle /\ LifeIdle

SpecCounter == InitCounterSpec /\ [][NextCounter]_vars

-----------------------------------------------------------------------------
(* Properties of the Authentication Gate and the routes *)

\* The endpoints setup_routes registers with add_authenticated_route and
\* with add_unauthenticated_route.
AuthenticatedEndpoints == {"/login"}
UnauthenticatedEndpoints == {"/health"}

\* C1: whenever the gate has been invoked, its outcome follows from the key
\* it was given and the stored hash: no key -> 401 "Missing API key" (whether
\* or not a hash is configured); key whose hash equals the stored hash ->
\* allowed; key whose hash differs from a configured hash -> 401 "Invalid API
\* key"; key but no hash configured -> 401 with a cause that is neither
\* "invalid" nor "missing".
C1_GateClassifies ==
    gate_outcome # "none" =>
        /\ gate_api_key = None =>
              /\ gate_outcome = "missing"
              /\ gate_raised.status = UNAUTHORIZED
              /\ gate_raised.detail = "Missing API key"
        /\ (gate_api_key # None /\ hashed_token # EmptyHash
                /\ hash_token(gate_api_key) = hashed_token) =>
              /\ gate_outcome = "success"
              /\ gate_raised = NoRaise
        /\ (gate_api_key # None /\ hashed_token # EmptyHash
                /\ hash_token(gate_api_key) # hashed_token) =>
              /\ gate_outcome = "invalid"
              /\ gate_raised.status = UNAUTHORIZED
              /\ gate_raised.detail = "Invalid API key"
        /\ (gate_api_key # None /\ hashed_token = EmptyHash) =>
              /\ gate_outcome = "error"
              /\ gate_raised.status = UNAUTHORIZED
              /\ gate_raised.detail \notin {"Invalid API key", "Missing API key"}

\* A key was presented to a server with no token hash and was rejected.
C1_Witness ==
    /\ gate_outcome = "error"
    /\ gate_api_key # None
    /\ hashed_token = EmptyHash
    /\ gate_raised.status = UNAUTHORIZED

\* C2: the handler of a route registered with add_authenticated_route has
\* run only if the gate was invoked for the request and allowed it (a key was
\* given, a hash is configured, the key's hash equals it); a request to a
\* route registered with add_unauthenticated_route never invokes the gate and
\* is answered by its handler.
C2_HandlerBehindGate ==
    /\ (req.endpoint \in AuthenticatedEndpoints /\ handler_ran # "none") =>
          /\ gate_outcome = "success"
          /\ gate_api_key # None
          /\ hashed_token # EmptyHash
          /\ hash_token(gate_api_key) = hashed_token
    /\ req.endpoint \in UnauthenticatedEndpoints =>
          /\ gate_outcome = "none"
          /\ rpc = "responded" => handler_ran = RouteOf(req.endpoint).handler

\* The handler of /login ran for a request the gate allowed.
C2_Witness ==
    /\ req.endpoint = "/login"
    /\ handler_ran = "get_login"
    /\ gate_outcome = "success"

\* C3: the gate judges the key sent in the header the server was configured
\* with: a valid key in that header is accepted, and a request without that
\* header counts as missing.
C3_ConfiguredHeaderIsRead ==
    gate_outcome # "none" =>
        LET k == req.headers[api_key_header_name] IN
            /\ k = None => gate_outcome = "missing"
            /\ (k # None /\ hash_token(k) = hashed_token) =>
                  gate_outcome = "success"

Inc(m, k) == [m EXCEPT ![k] = @ + 1]

OutcomeCounter(outcome) ==
    IF outcome = "success" THEN "auth_success_total"
    ELSE IF outcome = "missing" THEN "auth_failure_total:missing"
    ELSE IF outcome = "invalid" THEN "auth_failure_total:invalid"
    ELSE "auth_failure_total:error"

\* C4: every step in which the gate is invoked increments the counter of its
\* outcome by one and changes no other counter.
C4_GateCountsOutcome ==
    [][(gate_outcome = "none" /\ gate_outcome' # "none") =>
          metrics' = Inc(metrics, OutcomeCounter(gate_outcome'))]_vars

\* C5: a response of /health is HTTP 200 with status HEALTHY when a token
\* hash is loaded, HTTP 500 with status UNHEALTHY when it is empty, and its
\* status is never DEGRADED.
C5_HealthTwoStates ==
    (req.endpoint = "/health" /\ rpc = "responded") =>
        /\ resp.health # DEGRADED
        /\ hashed_token # EmptyHash =>
              resp.status = OK /\ resp.health = HEALTHY
        /\ hashed_token = EmptyHash =>
              resp.status = INTERNAL_SERVER_ERROR /\ resp.health = UNHEALTHY

\* C11: a call of verify_token with an empty stored hash raised the
\* configuration error (ValueError, "No stored token hash found for
\* verification."), whatever the token: it returned no boolean.
C11_EmptyHashRaises ==
    (verified.called /\ verified.stored_hash = EmptyHash) =>
        /\ verified.raised = "ValueError"
        /\ verified.msg = NO_HASH_MSG

\* verify_token was called with a token and an empty stored hash.
C11_Witness ==
    /\ verified.called
    /\ verified.token \in Tokens
    /\ verified.stored_hash = EmptyHash

\* C12: a call of verify_token with a non-empty stored digest raised nothing
\* and returned true exactly when the digest equals the hash of the token.
C12_VerifyIffHashEqual ==
    (verified.called /\ verified.stored_hash # EmptyHash) =>
        /\ verified.raised = "none"
        /\ verified.result <=> (verified.stored_hash = hash_token(verified.token))

\* verify_token returned true for the token whose hash is stored.
C12_Witness ==
    /\ verified.called
    /\ verified.stored_hash = hash_token(verified.token)
    /\ verified.result

\* The request was refused by the limiter in this step.
RateLimited == rpc # "responded" /\ rpc' = "responded"
               /\ resp'.status = TOO_MANY_REQUESTS

\* C18: a request refused by the limiter is answered 429 with the detail
\* "Rate limit exceeded", the response carries Retry-After exactly when the
\* exception has a retry-after value, and the step adds one to
\* rate_limit_exceeded_total.
C18_RateLimitHandlerCounts ==
    [][RateLimited =>
          /\ resp'.detail = "Rate limit exceeded"
          /\ resp'.retry_after \in {<<>>, <<42>>}
          /\ metrics' = Inc(metrics, "rate_limit_exceeded_total")]_vars

\* The gate refused, in this step, a request to a limited route of a server
\* with a limiter.
GateRejects ==
    /\ gate_outcome = "none"
    /\ gate_outcome' \in {"missing", "invalid", "error"}
    /\ limit_route(limiter, RouteOf(req.endpoint))

\* C19: on a protected, limited route the limit is checked before the gate:
\* a request the gate refuses is counted against the limit, and a request
\* arriving when the window is full is refused by the limiter, not judged by
\* the gate.
C19_LimitBeforeGate ==
    [][GateRejects => (hits < RateLimitCount /\ hits' = hits + 1)]_vars

\* C22: a request is counted or refused by the limiter only on a server
\* with a limiter and on a route registered with limited=True, and on such
\* a route every run of the handler is counted: without a limiter, and on
\* /health, nothing is ever rate limited.
C22_RateLimitPerRoute ==
    [][/\ (hits' > hits \/ RateLimited) =>
              (limiter /\ RouteOf(req.endpoint).limited)
       /\ (handler_ran = "none" /\ handler_ran' # "none" /\ limiter
              /\ RouteOf(req.endpoint).limited) => hits' = hits + 1]_vars

\* The limiter refused a request to /login, and, with the window still
\* full, /health was served.
C22_Witness ==
    /\ limiter
    /\ hits = RateLimitCount
    /\ req.endpoint = "/health"
    /\ handler_ran = "get_health"
    /\ resp.status = OK

\* C23: on a server with a static directory an HTTP error keeps its
\* status: a request the gate refused is answered 401 with the gate's
\* detail, and a request for an unmatched path is answered 404, with the
\* 404.html document exactly when that file exists.
C23_StaticKeepsErrorStatus ==
    (static_dir # "absent" /\ rpc = "responded") =>
        /\ gate_raised # NoRaise =>
              /\ resp.status = UNAUTHORIZED
              /\ resp.detail = gate_raised.detail
        /\ req.endpoint \notin Endpoints =>
              /\ resp.status = NOT_FOUND
              /\ resp.detail = "404.html" <=> static_dir = "with 404.html"

\* C24: every response a client receives, success or error, carries the six
\* security headers: Strict-Transport-Security with the configured max-age
\* and includeSubDomains, X-Content-Type-Options, X-Frame-Options,
\* Content-Security-Policy with the configured policy, X-XSS-Protection and
\* Referrer-Policy.
C24_SecurityHeadersOnEveryResponse ==
    rpc = "responded" =>
        /\ resp_headers.sts_max_age = HSTS_MAX_AGE
        /\ resp_headers.sts_include_subdomains
        /\ resp_headers.x_content_type_options = "nosniff"
        /\ resp_headers.x_frame_options = "DENY"
        /\ resp_headers.content_security_policy = CONTENT_SECURITY_POLICY
        /\ resp_headers.x_xss_protection = "1; mode=block"
        /\ resp_headers.referrer_policy = "strict-origin-when-cross-origin"

\* C25: a request in progress has its request entry in the log, from
\* unknown:0 when it has no client information, and an answered request,
\* one the gate refused included, has after it the response entry with the
\* status the client receives.
C25_RequestAndResponseLogged ==
    /\ rpc # "idle" =>
          /\ Len(request_log) >= 1
          /\ request_log[1].kind = "Request"
          /\ request_log[1].path = req.endpoint
          /\ ~req.client.present =>
                (request_log[1].host = "unknown" /\ request_log[1].port = 0)
    /\ rpc = "responded" =>
          /\ Len(request_log) = 2
          /\ request_log[2] = ResponseEntry(req, resp.status)

-----------------------------------------------------------------------------
(* Properties of the certificate bootstrap in run() *)

C7_ListenerNeedsBothFiles ==
    /\ (run_pc \in {"start", "serving"} \/ listener) =>
          (key_file # Absent /\ cert_file # Absent)
    /\ raised # "none" =>
          /\ run_pc = "exited"
          /\ exit_status = "1"
          /\ ~listener

\* A write of the certificate raised in a process that had written the key.
C7_Witness ==
    /\ raised = "PermissionError"
    /\ written = {"key"}
    /\ exit_status = "1"
    /\ ~listener

\* C8: with auto-bootstrap disabled, a process that found the key file or
\* the certificate file missing writes no file, starts no listener and ends
\* with status 1.
C8_StrictPolicyRefuses ==
    (~auto_bootstrap /\ run_pc # "constructed"
        /\ (boot_key = Absent \/ boot_cert = Absent)) =>
            /\ written = {}
            /\ ~listener
            /\ exit_status # "0"
            /\ run_pc \notin {"write_cert", "start", "serving"}

-----------------------------------------------------------------------------
(* Properties of the token store *)

\* The lines of a file that bind other keys than the token hash, as
\* <<key, value text>> in their order.
OtherEntries(file) ==
    LET others == SelectSeq(file, LAMBDA e : e.key # ENV_VAR_NAME) IN
        [i \in DOMAIN others |-> <<others[i].key, others[i].raw>>]

HashLines(file) == {i \in DOMAIN file : file[i].key = ENV_VAR_NAME}

\* C9: a load_hashed_token() that follows a completed save_hashed_token(T)
\* returns hash_token(T).
C9_LoadReturnsLatestSave ==
    (last_saved # None /\ loaded # NotLoaded) =>
        loaded = hash_token(last_saved)

-----------------------------------------------------------------------------
(* Properties of an interrupted bootstrap *)

\* C20: a start that follows a start killed between the write of the key
\* and the write of the certificate does not reach uvicorn.run before it has
\* found the pair incomplete and written both files anew.
C20_InterruptedBootstrapRegenerates ==
    (interrupted /\ run_pc \in {"start", "serving"}) =>
        /\ ~CertPairExists(boot_cert, boot_key)
        /\ written = {"key", "cert"}
        /\ key_file = Pem(starts)
        /\ cert_file = Pem(starts)

\* C21: a failure to create the certificate directory leaves
\* generate_self_signed_cert as SystemExit (exit status 1), and a failure to
\* write the key or the certificate leaves it as PermissionError or OSError,
\* so that the exception tells the two causes apart; the process ends in
\* both cases, without a second attempt.
C21_DirectoryFailureExitsWriteFailureRaises ==
    [][/\ (run_pc = "mkdir" /\ run_pc' # "write_key") =>
              /\ run_pc' = "exited"
              /\ exit_status' = "1"
              /\ raised' = "SystemExit"
       /\ (run_pc \in {"write_key", "write_cert"} /\ raised' # "none") =>
              /\ run_pc' = "exited"
              /\ exit_status' = "1"
              /\ raised' \in {"PermissionError", "OSError"}]_vars

-----------------------------------------------------------------------------
(* Properties of load_config *)

\* The files load_config cannot load: missing, unreadable, not JSON, or a
\* document that fails validation.
Unloadable(file) ==
    \/ file.kind # "json"
    \/ /\ file.doc.port # NoField
       /\ file.doc.port[1] \notin PORT_MIN .. PORT_MAX
    \/ /\ file.doc.days_valid # NoField
       /\ file.doc.days_valid[1] < DAYS_VALID_MIN

\* C13: a call of load_config that found the configuration file missing,
\* unreadable, not valid JSON or failing validation ended the process with
\* exit status 1 and returned no configuration, default or partial.
C13_BadConfigExits1 ==
    (config_pc # "idle" /\ Unloadable(config_read)) =>
        /\ config_pc = "exited"
        /\ config_exit = "1"
        /\ config = NoConfig

\* load_config has ended on a document that fails validation.
C13_Witness ==
    /\ config_pc = "exited"
    /\ config_read.kind = "json"
    /\ config_raised = "ValidationError"

\* C14: a configuration load_config returned, which is also what it wrote
\* back to the file, has its port in [1, 65535] and days_valid >= 1,
\* whatever the command line.
C14_ReturnedConfigInRange ==
    config_pc = "returned" =>
        /\ config.port >= PORT_MIN /\ config.port <= PORT_MAX
        /\ config.days_valid >= DAYS_VALID_MIN
        /\ config_file = JsonFile([port |-> Field(config.port),
                                   days_valid |-> Field(config.days_valid)])

\* load_config is called in a process in which it has returned already.
SecondLoad == config_pc = "returned" /\ config_pc' # "idle"

\* C29: a call of load_config in a process in which it has returned already
\* returns the configuration the first call returned and leaves the file as
\* the first call left it, unless writing the file fails.
C29_SecondLoadSameConfig ==
    [][SecondLoad =>
          \/ config_raised' = "OSError"
          \/ /\ config_pc' = "returned"
             /\ config' = config
             /\ config_file' = config_file]_vars

-----------------------------------------------------------------------------
(* Properties of the startup order *)

RECURSIVE SelectSteps(_, _)
\* The steps of `done` that are in `steps`, in their order.
SelectSteps(done, steps) ==
    IF done = <<>> THEN <<>>
    ELSE IF Head(done) \in steps
         THEN <<Head(done)>> \o SelectSteps(Tail(done), steps)
         ELSE SelectSteps(Tail(done), steps)

IsPrefix(s, t) ==
    /\ Len(s) <= Len(t)
    /\ \A i \in 1 .. Len(s) : s[i] = t[i]

\* The order the startup steps are stated to have, for a configuration.
StatedOrder(cors, rate, sub) ==
    <<Step("load_config"), Step("certificate"), Step("load_hashed_token"),
      Step("request_logging"), Step("security_headers")>>
        \o (IF cors THEN <<Step("cors")>> ELSE <<>>)
        \o (IF rate THEN <<Step("rate_limiting")>> ELSE <<>>)
        \o <<RouteStep("/metrics"), RouteStep("/health")>>
        \o RouteSteps(sub)
        \o <<Step("bind")>>

Range(f) == {f[i] : i \in DOMAIN f}

\* C15: the steps completed so far, restricted to the steps of the stated
\* order, are a beginning of that order: configuration load, certificate
\* resolution, token-hash load, request logging, security headers, CORS when
\* enabled, rate limiting when enabled, the metrics endpoint, the health
\* endpoint, the subclass's routes, the socket bind.
C15_StartupOrder ==
    LET stated == StatedOrder(cors_enabled, rate_limit_enabled,
                              subclass_routes)
    IN  IsPrefix(SelectSteps(startup_done, Range(stated)), stated)

-----------------------------------------------------------------------------
(* Properties of the running server and of the token generator *)

\* The hash the environment file binds now.
FileHash == IF DotenvValue(env_file, ENV_VAR_NAME) = Unset THEN EmptyHash
            ELSE DotenvValue(env_file, ENV_VAR_NAME)

\* C16: the server holds the hash its constructor read, whatever the
\* environment file holds since: the gate verifies against that hash, and
\* /health reports whether that hash was empty, until the server is
\* restarted.
C16_HashReadOnceAtConstruction ==
    /\ hashed_token = hash_at_start
    /\ verified.called => verified.stored_hash = hash_at_start
    /\ (rpc = "responded" /\ handler_ran = "get_health") =>
          (resp.health = HEALTHY <=> hash_at_start # EmptyHash)

\* A request was let through by the hash read at construction after the file
\* was given the hash of another token.
C16_Witness ==
    /\ gate_outcome = "success"
    /\ verified.stored_hash = hash_at_start
    /\ FileHash # hash_at_start
    /\ generated # <<>>

\* C17: each call of generate_new_token that returned printed its token on
\* one line of standard output, no log record carries a token, and the
\* environment file binds the hash of the latest token, never a token.
C17_PlaintextOnlyOnStdout ==
    /\ Len(stdout) = Len(generated)
    /\ \A i \in DOMAIN stdout :
          stdout[i] = Line("Token: ", <<generated[i]>>)
    /\ \A i \in DOMAIN log_records : log_records[i].args = <<>>
    /\ \A i \in DOMAIN env_file :
          env_file[i].key = ENV_VAR_NAME =>
              ParseValue(env_file[i].raw) \in Digests
    /\ generated # <<>> => FileHash = hash_token(generated[Len(generated)])

\* generate_new_token has returned twice.
C17_Witness ==
    /\ Len(generated) = 2
    /\ Len(stdout) = 2
    /\ Len(log_records) = 2

\* C28: a step that prints a line prints one token whose hash the
\* environment file binds after the step: generate_new_token prints after
\* save_hashed_token returned, and a call whose save raised prints nothing.
C28_PrintedOnlyAfterPersisted ==
    [][stdout' # stdout =>
          \E t \in Tokens :
              /\ stdout' = Append(stdout, Line("Token: ", <<t>>))
              /\ env_exists'
              /\ FileHash' = hash_token(t)]_vars

\* save_hashed_token created the file and set_key raised: the file is
\* there without a hash, and nothing was printed.
C28_Witness ==
    /\ env_exists
    /\ env_file = <<>>
    /\ stdout = <<>>
    /\ generated = <<>>

-----------------------------------------------------------------------------
(* The response to a rejected key and the token store *)

\* The gate rejected a key the request carried.
PresentKeyRejected ==
    /\ rpc = "responded"
    /\ gate_api_key # None
    /\ gate_outcome \in {"invalid", "error"}

\* The response the client of this server would receive to the same key if
\* the server held stored_hash.
ResponseWith(stored_hash) ==
    LET out == verify_api_key(gate_api_key, stored_hash) IN
    ClientResponse(http_exception_response(static_dir, out.status,
                                           out.detail))

-----------------------------------------------------------------------------
(* Properties of the metric counters *)

ReturnedFor(c) ==
    {w \in Workers : inc_pc[w] = "returned" /\ inc_child[w] = c}

NoIncrementInFlight ==
    \A w \in Workers :
        inc_pc[w] \in {"idle", "returned", "TypeError", "ValueError"}

-----------------------------------------------------------------------------
(* Properties over the history of starts *)

\* C27: whenever run() is about to call uvicorn.run, the key file and the
\* certificate file hold a key and a certificate of the same generation,
\* whatever the earlier starts did, a generation that failed or was killed
\* after writing one of the two files included.
C27_ListenerPairSameGeneration ==
    run_pc = "start" => PairLoadable(cert_file, key_file)

=============================================================================
